---- MODULE Spec2Model ----
(***************************************************************************)
(* The gesture-to-sentence recognition hook useSignRecognition            *)
(* (src/src/hooks/useSignRecognition.ts) as a state machine.               *)
(*                                                                         *)
(* The hook is a React function component hook: its useState cells and     *)
(* useRef cells are the state, its callbacks are the actions.  Three       *)
(* things of React decide what the callbacks do and are modelled as such:  *)
(*   - a callback reads the useState values of the render that created it  *)
(*     (useCallback keeps it until a dependency changes);                  *)
(*   - the effect of lines 353-358 depends on stopProcessing, which is     *)
(*     re-created whenever sentenceInProgress changes: on the render that  *)
(*     follows such a change React runs the previous render's cleanup      *)
(*     (stopProcessing of that render) and then initializeHands again;     *)
(*   - React renders and flushes effects after a handler returns, before   *)
(*     the next timer, animation frame or click is served (action Commit,  *)
(*     which every other action waits for).                                *)
(*                                                                         *)
(* Time is kept as the differences the code computes from Date.now():      *)
(* sinceGestureStart is currentTime - gestureStartTimeRef.current and      *)
(* sinceLastProcessed is currentTime - lastProcessedTimeRef.current, each  *)
(* kept up to the constant it is compared with; a pending setTimeout is    *)
(* the time left until it fires.  debugInfo and                            *)
(* isWaitingForNextGestureRef only feed the debug line and are left out.   *)
(*                                                                         *)
(* The caller of the hook is the page SignToSpeechPage                     *)
(* (src/src/pages/SignToSpeechPage.tsx): its handlers call startProcessing *)
(* and stopProcessing, and its effect hands the transcript to              *)
(* textToSpeech.  The calls are not restricted to the moments the page's   *)
(* buttons allow: a caller may start twice or stop when stopped.           *)
(***************************************************************************)
EXTENDS Integers, Sequences, FiniteSets, TLC

\* ------------------------------------------------------------ constants
GESTURE_HOLD_TIME == 800
GESTURE_PAUSE_TIME == 300
SENTENCE_TIMEOUT == 4000
GESTURE_STABILITY_THRESHOLD == 3
IDLE_TIMEOUT == 6000

\* --------------------------------------------------------------- bounds
\* The longest time (ms) that passes in one Tick.
Step == 100
\* processFrame chains (a send in flight or a requested animation frame)
\* that may be alive at once.
MaxLoops == 2
\* Cap of gestureStabilityCountRef.
MaxCount == 12
\* Cap of the length (in tokens) of the transcript plus the sentence.
MaxTokens == 6

Min(a, b) == IF a <= b THEN a ELSE b

\* null
None == "none"
\* no setTimeout pending behind the ref (null, fired or cleared)
NoTimer == -1
\* sentenceTimeoutRef: the time left and the sentence the callback holds
NoSentenceTimer == [left |-> NoTimer, sentence |-> <<>>]

\* ----------------------------------------------------------------- text
\* A string is the sequence of its tokens: words, " " and ". ".
Space == " "
DotSpace == ". "

RECURSIVE TrimStart(_)
TrimStart(t) == IF t # <<>> /\ Head(t) = Space THEN TrimStart(Tail(t)) ELSE t

RECURSIVE TrimEnd(_)
TrimEnd(t) ==
    IF t # <<>> /\ t[Len(t)] = Space THEN TrimEnd(SubSeq(t, 1, Len(t) - 1)) ELSE t

\* String.prototype.trim
Trim(t) == TrimEnd(TrimStart(t))

\* The table with the word of thumbs_up under thumbs_down as well and no
\* word for closed_fist.
MappingNotInjective ==
    [g \in {"thumbs_up", "thumbs_down", "victory", "pointing_up", "open_palm"} |->
        CASE g = "thumbs_up" -> "yes"
          [] g = "thumbs_down" -> "yes"
          [] g = "victory" -> "peace"
          [] g = "pointing_up" -> "up"
          [] g = "open_palm" -> "hello"]
\* ASL_TO_ENGLISH_MAPPING restricted to the entries a label can reach
ASL_TO_ENGLISH_MAPPING ==
    [g \in {"thumbs_up", "thumbs_down", "victory", "pointing_up", "pointing_down",
            "open_palm", "closed_fist", "ok_sign", "wave", "pinch",
            "spread_fingers", "index_middle", "three_fingers", "four_fingers",
            "five_fingers"} |->
        CASE g = "thumbs_up" -> "yes"
          [] g = "thumbs_down" -> "no"
          [] g = "victory" -> "peace"
          [] g = "pointing_up" -> "up"
          [] g = "pointing_down" -> "down"
          [] g = "open_palm" -> "hello"
          [] g = "closed_fist" -> "stop"
          [] g = "ok_sign" -> "okay"
          [] g = "wave" -> "goodbye"
          [] g = "pinch" -> "small"
          [] g = "spread_fingers" -> "big"
          [] g = "index_middle" -> "two"
          [] g = "three_fingers" -> "three"
          [] g = "four_fingers" -> "four"
          [] g = "five_fingers" -> "five"]

\* ASL_TO_ENGLISH_MAPPING[gestureName]; a missing key reads as undefined,
\* which a template literal prints as "undefined"
TranslatedWord(g) ==
    IF g \in DOMAIN ASL_TO_ENGLISH_MAPPING THEN ASL_TO_ENGLISH_MAPPING[g] ELSE "undefined"

\* prev ? `${prev} ${translatedWord}` : translatedWord, then trim()
AppendWord(prev, w) == Trim(IF prev # <<>> THEN prev \o <<Space, w>> ELSE <<w>>)

\* prev ? `${prev}. ${newSentence}` : newSentence, newSentence = sentence.trim()
AppendSentenceAfterSeparator(prev, sentence) == prev \o <<DotSpace>> \o Trim(sentence)
AppendSentence(prev, sentence) ==
    IF prev # <<>> THEN prev \o <<DotSpace>> \o Trim(sentence) ELSE Trim(sentence)

\* ----------------------------------------------------------- classifier
\* Landmark coordinates in thousandths of the normalized image size.
FINGER_MARGIN == 25
THUMB_MARGIN == 40
THUMB_DOWN_MARGIN == 60

Pt(px, py) == [x |-> px, y |-> py]
Abs(n) == IF n < 0 THEN -n ELSE n

IsFingerExtended(tip, mcp) == tip.y < mcp.y - FINGER_MARGIN

IsThumbExtended(thumbTip, thumbMcp, wrist) ==
    Abs(thumbTip.x - wrist.x) > Abs(thumbMcp.x - wrist.x) + THUMB_MARGIN

\* The rows of lines 250-278, each as the condition of its if.
RowMatches(label, lm) ==
    LET wrist == lm[0]
        thumbTip == lm[4]
        thumbExtended == IsThumbExtended(thumbTip, lm[2], wrist)
        indexExtended == IsFingerExtended(lm[8], lm[5])
        middleExtended == IsFingerExtended(lm[12], lm[9])
        ringExtended == IsFingerExtended(lm[16], lm[13])
        pinkyExtended == IsFingerExtended(lm[20], lm[17])
    IN  CASE label = "victory" ->
               ~thumbExtended /\ indexExtended /\ middleExtended /\ ~ringExtended /\ ~pinkyExtended
          [] label = "pointing_up" ->
               ~thumbExtended /\ indexExtended /\ ~middleExtended /\ ~ringExtended /\ ~pinkyExtended
          [] label = "thumbs_up" ->
               thumbExtended /\ ~indexExtended /\ ~middleExtended /\ ~ringExtended /\ ~pinkyExtended
          [] label = "thumbs_down" ->
               /\ thumbTip.y > wrist.y + THUMB_DOWN_MARGIN
               /\ ~indexExtended /\ ~middleExtended /\ ~ringExtended /\ ~pinkyExtended
          [] label = "open_palm" ->
               thumbExtended /\ indexExtended /\ middleExtended /\ ringExtended /\ pinkyExtended
          [] label = "closed_fist" ->
               ~thumbExtended /\ ~indexExtended /\ ~middleExtended /\ ~ringExtended /\ ~pinkyExtended
          [] OTHER -> FALSE

\* recognizeGestureFromLandmarks (lines 231-281)
RecognizeThumbsDownFirst(lm) ==
    IF RowMatches("victory", lm) THEN "victory"
    ELSE IF RowMatches("pointing_up", lm) THEN "pointing_up"
    ELSE IF RowMatches("thumbs_down", lm) THEN "thumbs_down"
    ELSE IF RowMatches("thumbs_up", lm) THEN "thumbs_up"
    ELSE IF RowMatches("open_palm", lm) THEN "open_palm"
    ELSE IF RowMatches("closed_fist", lm) THEN "closed_fist"
    ELSE None
RecognizeGestureFromLandmarks(lm) ==
    LET wrist == lm[0]
        thumbTip == lm[4]
        thumbExtended == IsThumbExtended(thumbTip, lm[2], wrist)
        indexExtended == IsFingerExtended(lm[8], lm[5])
        middleExtended == IsFingerExtended(lm[12], lm[9])
        ringExtended == IsFingerExtended(lm[16], lm[13])
        pinkyExtended == IsFingerExtended(lm[20], lm[17])
    IN  IF ~thumbExtended /\ indexExtended /\ middleExtended /\ ~ringExtended /\ ~pinkyExtended
          THEN "victory"
        ELSE IF ~thumbExtended /\ indexExtended /\ ~middleExtended /\ ~ringExtended /\ ~pinkyExtended
          THEN "pointing_up"
        ELSE IF thumbExtended /\ ~indexExtended /\ ~middleExtended /\ ~ringExtended /\ ~pinkyExtended
          THEN "thumbs_up"
        ELSE IF thumbTip.y > wrist.y + THUMB_DOWN_MARGIN
                /\ ~indexExtended /\ ~middleExtended /\ ~ringExtended /\ ~pinkyExtended
          THEN "thumbs_down"
        ELSE IF thumbExtended /\ indexExtended /\ middleExtended /\ ringExtended /\ pinkyExtended
          THEN "open_palm"
        ELSE IF ~thumbExtended /\ ~indexExtended /\ ~middleExtended /\ ~ringExtended /\ ~pinkyExtended
          THEN "closed_fist"
        ELSE None

\* confidence of the gesture returned (0.9 in every row), in thousandths; a
\* null result has none
Confidence(lm) == IF RecognizeGestureFromLandmarks(lm) = None THEN 0 ELSE 900

\* A hand of 21 landmarks: wrist at (500, 800), the knuckles at y = 500, the
\* thumb base at x = 450; the tips are the arguments.  Landmarks the
\* classifier does not read sit on the wrist.
Hand(thumbTipX, thumbTipY, indexTipY, middleTipY, ringTipY, pinkyTipY) ==
    [i \in 0..20 |->
        CASE i = 0 -> Pt(500, 800)
          [] i = 2 -> Pt(450, 700)
          [] i = 4 -> Pt(thumbTipX, thumbTipY)
          [] i = 5 -> Pt(450, 500)
          [] i = 8 -> Pt(450, indexTipY)
          [] i = 9 -> Pt(500, 500)
          [] i = 12 -> Pt(500, middleTipY)
          [] i = 13 -> Pt(550, 500)
          [] i = 16 -> Pt(550, ringTipY)
          [] i = 17 -> Pt(600, 500)
          [] i = 20 -> Pt(600, pinkyTipY)
          [] OTHER -> Pt(500, 800)]

OpenPalmHand == Hand(350, 600, 300, 300, 300, 300)
ClosedFistHand == Hand(470, 700, 520, 520, 520, 520)
ThreeFingerHand == Hand(470, 700, 300, 300, 300, 520)

\* The open palm with its last landmark missing (20 points), and with one
\* landmark too many (22 points).
ShortHand == [i \in 0..19 |-> OpenPalmHand[i]]
LongHand == [i \in 0..21 |-> IF i = 21 THEN Pt(500, 800) ELSE OpenPalmHand[i]]

\* results.multiHandLandmarks of the frames the detector delivers: no hand
\* (an empty list), or one hand
FrameResults ==
    {<<>>, <<OpenPalmHand>>, <<ClosedFistHand>>, <<ThreeFingerHand>>,
     <<ShortHand>>, <<LongHand>>}

\* The landmarks recognizeGestureFromLandmarks reads (lines 232-242); it
\* reads x or y of each (lines 244-248), which throws a TypeError on a
\* landmark the list does not have.
LandmarksRead == {0, 2, 4, 5, 8, 9, 12, 13, 16, 17, 20}

Throws(results) == results # <<>> /\ ~(LandmarksRead \subseteq DOMAIN results[1])

\* ---------------------------------------------------------------- state
VARIABLES
    \* useState
    isProcessing, detectedGesture, translatedText, error, currentChunk, isIdle,
    sentenceInProgress,
    \* useRef
    handsRef, processingRef, sentenceTimeoutRef, idleTimeoutRef, animationFrameRef,
    currentGestureRef, gestureStabilityCountRef, sinceGestureStart,
    lastProcessedGestureRef, sinceLastProcessed,
    \* setTimeout: timers still pending that the refs no longer name
    strayIdleTimers, straySentenceTimers,
    \* React: sentenceInProgress as the last committed render saw it
    renderedSentence,
    \* the frame driver: sends awaited, animation frames requested
    sending, orphanFrames,
    \* the page: isTranslating of the store, lastSpokenTextRef, and the texts
    \* handed to textToSpeech since the last start
    isTranslating, lastSpokenTextRef, spoken,
    \* history: the last action, what the last frame showed, what the last
    \* stopProcessing or idle timeout found, the hold in progress, and the
    \* words accepted since startProcessing
    lastOp, lastFrame, found, hold, sessionAccepts,
    \* the results (multiHandLandmarks) last handed to the classifier
    lastResults,
    \* the time since a startProcessing after which the camera has shown an
    \* open palm for one second and no hand since, while nothing else was
    \* asked of the hook
    scenario,
    \* textToSpeechService: whether the browser has speechSynthesis, and the
    \* calls of textToSpeech with their utterance, promise and callbacks
    tts

stateVars == <<isProcessing, detectedGesture, translatedText, error, currentChunk,
               isIdle, sentenceInProgress>>
gestureRefs == <<currentGestureRef, gestureStabilityCountRef, sinceGestureStart,
                 lastProcessedGestureRef, sinceLastProcessed>>
timerRefs == <<sentenceTimeoutRef, idleTimeoutRef, strayIdleTimers, straySentenceTimers>>
driverVars == <<animationFrameRef, sending, orphanFrames>>
pageVars == <<isTranslating, lastSpokenTextRef, spoken>>
history == <<lastOp, lastFrame, found, hold, sessionAccepts, lastResults, scenario>>

vars == <<stateVars, gestureRefs, timerRefs, driverVars, handsRef, processingRef,
          renderedSentence, pageVars, history, tts>>

NoChunk == [gestures |-> <<>>, text |-> <<>>]

\* A requested animation frame fires on a later frame of the display: "new"
\* until time has passed, then "ready".
NoFrames == [new |-> 0, ready |-> 0]

\* History of a hold: the label of the frames processed in a row, how many
\* they are, the time since the first of them, the acceptances they
\* produced, and the label of a hold that a frame without a candidate cut
\* short before it was accepted.
NoHold == [label |-> None, frames |-> 0, time |-> GESTURE_HOLD_TIME, accepts |-> 0,
           interrupted |-> None]
Nothing == [gesture |-> None, count |-> 0, idleTimer |-> FALSE, sentence |-> <<>>,
            processing |-> FALSE]

\* The hook after its first render and its mount effect.
\* No scenario is being followed.
NoScenario == [running |-> FALSE, elapsed |-> 0]

Mounted ==
    /\ isProcessing = FALSE
    /\ detectedGesture = None
    /\ translatedText = <<>>
    /\ currentChunk = NoChunk
    /\ isIdle = TRUE
    /\ sentenceInProgress = <<>>
    /\ processingRef = FALSE
    /\ sentenceTimeoutRef = NoSentenceTimer
    /\ idleTimeoutRef = NoTimer
    /\ strayIdleTimers = 0
    /\ straySentenceTimers = 0
    /\ animationFrameRef = None
    /\ currentGestureRef = None
    /\ gestureStabilityCountRef = 0
    /\ sinceGestureStart = GESTURE_HOLD_TIME
    /\ lastProcessedGestureRef = None
    /\ sinceLastProcessed = GESTURE_PAUSE_TIME
    /\ renderedSentence = <<>>
    /\ sending = 0
    /\ orphanFrames = NoFrames
    /\ isTranslating = FALSE
    /\ lastSpokenTextRef = <<>>
    /\ spoken = <<>>
    /\ lastOp = "mount"
    /\ lastFrame = None
    /\ found = Nothing
    /\ hold = NoHold
    /\ sessionAccepts = <<>>
    /\ scenario = NoScenario
    \* the mount effect has run initializeHands: new Hands() succeeded or threw
    /\ \E ok \in BOOLEAN :
         /\ handsRef = ok
         /\ error = IF ok THEN None ELSE "initialize"

\* No call of textToSpeech is followed, in a browser that can speak.
NoSpeech == [supported |-> TRUE, calls |-> <<>>]

Init ==
    /\ Mounted
    /\ lastResults = <<>>
    /\ tts = NoSpeech

\* ------------------------------------------------------------ callbacks
\* Animation frames requested and not yet fired or cancelled.
PendingFrames ==
    orphanFrames.new + orphanFrames.ready + (IF animationFrameRef # None THEN 1 ELSE 0)

\* resetIdleTimeout (lines 38-53): clear the pending idle timer, start a new one
ResetIdleTimeoutKeepsIdleFlag ==
    /\ UNCHANGED isIdle
    /\ idleTimeoutRef' = IDLE_TIMEOUT
    /\ UNCHANGED strayIdleTimers
ResetIdleTimeoutKeepsPending ==
    /\ isIdle' = FALSE
    /\ idleTimeoutRef' = IDLE_TIMEOUT
    /\ strayIdleTimers' = strayIdleTimers + (IF idleTimeoutRef # NoTimer THEN 1 ELSE 0)
ResetIdleTimeout ==
    /\ isIdle' = FALSE
    \* clearTimeout(idleTimeoutRef.current): the timer the ref names is gone
    /\ UNCHANGED strayIdleTimers
    /\ idleTimeoutRef' = IDLE_TIMEOUT

\* sentenceInProgress as the resetSentenceTimeout that processHandResults
\* calls saw it.  initializeHands is created once (useCallback with no
\* dependencies, lines 89-114), so the processHandResults that hands.onResults
\* calls, and the resetSentenceTimeout it calls, are those of the first
\* render, which saw useState('').
HandlerSentence == <<>>

\* resetSentenceTimeout (lines 55-72) as processHandResults reaches it: the
\* timer callback keeps the sentence its render saw
ResetSentenceTimeoutAsLongAsIdle ==
    /\ UNCHANGED straySentenceTimers
    /\ sentenceTimeoutRef' = [left |-> IDLE_TIMEOUT, sentence |-> HandlerSentence]
ResetSentenceTimeout ==
    \* clearTimeout(sentenceTimeoutRef.current)
    /\ UNCHANGED straySentenceTimers
    /\ sentenceTimeoutRef' = [left |-> SENTENCE_TIMEOUT, sentence |-> HandlerSentence]

\* lines 132-136 and 213-216: no hand, or no pose recognized
ClearCurrentGestureKeepsCount ==
    UNCHANGED <<currentGestureRef, gestureStabilityCountRef, detectedGesture>>
ClearCurrentGestureKeepsLabel ==
    /\ gestureStabilityCountRef' = 0
    /\ detectedGesture' = None
    /\ UNCHANGED currentGestureRef
ClearCurrentGesture ==
    IF currentGestureRef # None
      THEN /\ currentGestureRef' = None
           /\ gestureStabilityCountRef' = 0
           /\ detectedGesture' = None
      ELSE UNCHANGED <<currentGestureRef, gestureStabilityCountRef, detectedGesture>>

\* lines 158-167: the acceptance test, on the incremented count
AcceptsWithoutHoldTime(count, gestureName) ==
    /\ count >= GESTURE_STABILITY_THRESHOLD
    /\ (lastProcessedGestureRef # gestureName \/ sinceLastProcessed >= GESTURE_PAUSE_TIME)
Accepts(count, gestureName) ==
    /\ count >= GESTURE_STABILITY_THRESHOLD
    /\ sinceGestureStart >= GESTURE_HOLD_TIME
    /\ (lastProcessedGestureRef # gestureName \/ sinceLastProcessed >= GESTURE_PAUSE_TIME)

\* lines 169-196: the gesture is processed
AcceptGestureKeepsSentenceTimer(gestureName) ==
    LET translatedWord == TranslatedWord(gestureName) IN
    /\ detectedGesture' = gestureName
    /\ sentenceInProgress' = AppendWord(sentenceInProgress, translatedWord)
    /\ currentChunk' =
         [gestures |-> Append(currentChunk.gestures, gestureName),
          text |-> IF currentChunk # NoChunk
                     THEN Trim(currentChunk.text \o <<Space, translatedWord>>)
                     ELSE <<translatedWord>>]
    /\ lastProcessedGestureRef' = gestureName
    /\ sinceLastProcessed' = 0
    /\ UNCHANGED <<sentenceTimeoutRef, straySentenceTimers>>
AcceptGestureKeepsChunkText(gestureName) ==
    /\ detectedGesture' = gestureName
    /\ sentenceInProgress' = AppendWord(sentenceInProgress, TranslatedWord(gestureName))
    /\ currentChunk' = [currentChunk EXCEPT !.gestures = Append(@, gestureName)]
    /\ lastProcessedGestureRef' = gestureName
    /\ sinceLastProcessed' = 0
    /\ ResetSentenceTimeout
AcceptGesture(gestureName) ==
    LET translatedWord == TranslatedWord(gestureName) IN
    /\ detectedGesture' = gestureName
    /\ sentenceInProgress' = AppendWord(sentenceInProgress, translatedWord)
    /\ currentChunk' =
         [gestures |-> Append(currentChunk.gestures, gestureName),
          text |-> IF currentChunk # NoChunk
                     THEN Trim(currentChunk.text \o <<Space, translatedWord>>)
                     ELSE <<translatedWord>>]
    /\ lastProcessedGestureRef' = gestureName
    /\ sinceLastProcessed' = 0
    /\ ResetSentenceTimeout

\* results.multiHandLandmarks[0] classified; None without a hand (line 130)
\* or without a recognized pose (line 211)
GestureOf(results) ==
    IF results = <<>> THEN None ELSE RecognizeGestureFromLandmarks(results[1])

\* lines 204-210: a gesture other than the one tracked
NewGestureKeepsCount(gestureName) ==
    /\ currentGestureRef' = gestureName
    /\ gestureStabilityCountRef' = gestureStabilityCountRef + 1
    /\ sinceGestureStart' = 0
NewGesture(gestureName) ==
    /\ currentGestureRef' = gestureName
    /\ gestureStabilityCountRef' = 1
    /\ sinceGestureStart' = 0

\* lines 224-228: what the try block threw is caught and reported; the
\* resetIdleTimeout of line 128 has run before
CatchProcessingErrorEmitsWord ==
    /\ error' = "gestures"
    /\ sentenceInProgress' = AppendWord(sentenceInProgress, "undefined")
    /\ UNCHANGED <<detectedGesture, currentChunk, gestureRefs, sentenceTimeoutRef,
                   straySentenceTimers>>
CatchProcessingError ==
    /\ error' = "gestures"
    /\ UNCHANGED <<detectedGesture, sentenceInProgress, currentChunk, gestureRefs,
                   sentenceTimeoutRef, straySentenceTimers>>

\* processHandResults (lines 126-229)
ProcessHandResults(results) ==
    /\ ResetIdleTimeout
    /\ UNCHANGED <<isProcessing, translatedText>>
    /\ IF Throws(results)
         THEN CatchProcessingError
         ELSE
           LET gestureName == GestureOf(results) IN
           /\ UNCHANGED error
           /\ IF gestureName = None
                THEN /\ ClearCurrentGesture
                     /\ UNCHANGED <<sentenceInProgress, currentChunk, sinceGestureStart,
                                    lastProcessedGestureRef, sinceLastProcessed,
                                    sentenceTimeoutRef, straySentenceTimers>>
              ELSE IF currentGestureRef = gestureName
                THEN /\ gestureStabilityCountRef' = gestureStabilityCountRef + 1
                     /\ UNCHANGED <<currentGestureRef, sinceGestureStart>>
                     /\ IF Accepts(gestureStabilityCountRef + 1, gestureName)
                          THEN AcceptGesture(gestureName)
                          ELSE UNCHANGED <<detectedGesture, sentenceInProgress,
                                           currentChunk, lastProcessedGestureRef,
                                           sinceLastProcessed, sentenceTimeoutRef,
                                           straySentenceTimers>>
                ELSE /\ NewGesture(gestureName)
                     /\ UNCHANGED <<detectedGesture, sentenceInProgress, currentChunk,
                                    lastProcessedGestureRef, sinceLastProcessed,
                                    sentenceTimeoutRef, straySentenceTimers>>

\* requestAnimationFrame(processFrame), its id stored in animationFrameRef
\* (line 85); a request the ref named before stays pending without a name
RequestAnimationFrame ==
    /\ animationFrameRef' = "new"
    /\ orphanFrames' =
         IF animationFrameRef = None THEN orphanFrames
         ELSE [orphanFrames EXCEPT ![animationFrameRef] = @ + 1]

\* stopProcessing (lines 315-351) of a render that saw sentenceInProgress =
\* captured
StopProcessingKeepsIdleTimer(captured) ==
    /\ isProcessing' = FALSE
    /\ processingRef' = FALSE
    /\ translatedText' = IF captured # <<>>
                           THEN AppendSentence(translatedText, captured)
                           ELSE translatedText
    /\ detectedGesture' = None
    /\ sentenceInProgress' = <<>>
    /\ currentChunk' = NoChunk
    /\ currentGestureRef' = None
    /\ gestureStabilityCountRef' = 0
    /\ lastProcessedGestureRef' = None
    /\ sinceLastProcessed' = GESTURE_PAUSE_TIME
    /\ UNCHANGED sinceGestureStart
    /\ sentenceTimeoutRef' = NoSentenceTimer
    /\ UNCHANGED idleTimeoutRef
    /\ animationFrameRef' = None
    /\ UNCHANGED <<orphanFrames, strayIdleTimers, straySentenceTimers>>
StopProcessingAppendsAlways(captured) ==
    /\ isProcessing' = FALSE
    /\ processingRef' = FALSE
    /\ translatedText' = IF translatedText # <<>>
                           THEN translatedText \o <<DotSpace>> \o Trim(captured)
                           ELSE Trim(captured)
    /\ detectedGesture' = None
    /\ sentenceInProgress' = <<>>
    /\ currentChunk' = NoChunk
    /\ currentGestureRef' = None
    /\ gestureStabilityCountRef' = 0
    /\ lastProcessedGestureRef' = None
    /\ sinceLastProcessed' = GESTURE_PAUSE_TIME
    /\ UNCHANGED sinceGestureStart
    /\ sentenceTimeoutRef' = NoSentenceTimer
    /\ idleTimeoutRef' = NoTimer
    /\ animationFrameRef' = None
    /\ UNCHANGED <<orphanFrames, strayIdleTimers, straySentenceTimers>>
StopProcessingReplacesTranscript(captured) ==
    /\ isProcessing' = FALSE
    /\ processingRef' = FALSE
    /\ translatedText' = Trim(captured)
    /\ detectedGesture' = None
    /\ sentenceInProgress' = <<>>
    /\ currentChunk' = NoChunk
    /\ currentGestureRef' = None
    /\ gestureStabilityCountRef' = 0
    /\ lastProcessedGestureRef' = None
    /\ sinceLastProcessed' = GESTURE_PAUSE_TIME
    /\ UNCHANGED sinceGestureStart
    /\ sentenceTimeoutRef' = NoSentenceTimer
    /\ idleTimeoutRef' = NoTimer
    /\ animationFrameRef' = None
    /\ UNCHANGED <<orphanFrames, strayIdleTimers, straySentenceTimers>>
StopProcessingKeepsSentence(captured) ==
    /\ isProcessing' = FALSE
    /\ processingRef' = FALSE
    /\ translatedText' = IF captured # <<>>
                           THEN AppendSentence(translatedText, captured)
                           ELSE translatedText
    /\ detectedGesture' = None
    /\ UNCHANGED sentenceInProgress
    /\ currentChunk' = NoChunk
    /\ currentGestureRef' = None
    /\ gestureStabilityCountRef' = 0
    /\ lastProcessedGestureRef' = None
    /\ sinceLastProcessed' = GESTURE_PAUSE_TIME
    /\ UNCHANGED sinceGestureStart
    /\ sentenceTimeoutRef' = NoSentenceTimer
    /\ idleTimeoutRef' = NoTimer
    /\ animationFrameRef' = None
    /\ UNCHANGED <<orphanFrames, strayIdleTimers, straySentenceTimers>>
StopProcessing(captured) ==
    /\ isProcessing' = FALSE
    /\ processingRef' = FALSE
    /\ translatedText' = IF captured # <<>>
                           THEN AppendSentence(translatedText, captured)
                           ELSE translatedText
    /\ detectedGesture' = None
    /\ sentenceInProgress' = <<>>
    /\ currentChunk' = NoChunk
    /\ currentGestureRef' = None
    /\ gestureStabilityCountRef' = 0
    /\ lastProcessedGestureRef' = None
    \* lastProcessedTimeRef.current = 0: any Date.now() is past the pause
    /\ sinceLastProcessed' = GESTURE_PAUSE_TIME
    /\ UNCHANGED sinceGestureStart
    \* clearTimeout, clearTimeout, cancelAnimationFrame
    /\ sentenceTimeoutRef' = NoSentenceTimer
    /\ idleTimeoutRef' = NoTimer
    /\ animationFrameRef' = None
    /\ UNCHANGED <<orphanFrames, strayIdleTimers, straySentenceTimers>>

\* No render is waiting to be committed: stopProcessing, and with it the
\* effect of lines 353-358, is re-created when sentenceInProgress differs
\* from the one the last render saw (line 351).
CommittedWhateverTheSentence == TRUE
Committed == sentenceInProgress = renderedSentence

\* What a stopProcessing or an idle timeout finds when it runs.
Found ==
    [gesture |-> currentGestureRef, count |-> gestureStabilityCountRef,
     idleTimer |-> idleTimeoutRef # NoTimer, sentence |-> sentenceInProgress,
     processing |-> processingRef]

\* The hold after a processed frame that showed gestureName (None: no
\* candidate), accepted or not.
HoldAfter(gestureName, accepted) ==
    IF gestureName = None
      THEN [NoHold EXCEPT !.time = hold.time,
                          !.interrupted = IF hold.label # None /\ hold.accepts = 0
                                            THEN hold.label ELSE None]
    ELSE IF gestureName = hold.label
      THEN [hold EXCEPT !.frames = @ + 1,
                        !.accepts = @ + (IF accepted THEN 1 ELSE 0)]
      ELSE [label |-> gestureName, frames |-> 1, time |-> 0,
            accepts |-> IF accepted THEN 1 ELSE 0,
            interrupted |-> IF hold.interrupted = gestureName THEN gestureName ELSE None]

\* ----------------------------------------------------------------- page
\* speakText (SignToSpeechPage.tsx, lines 89-107): textToSpeech is called
\* unless the text is empty or the one spoken last
SpeakTextAgain(text) ==
    IF text = <<>>
      THEN UNCHANGED <<lastSpokenTextRef, spoken>>
      ELSE /\ lastSpokenTextRef' = text
           /\ spoken' = Append(spoken, text)
SpeakText(text) ==
    IF text = <<>> \/ text = lastSpokenTextRef
      THEN UNCHANGED <<lastSpokenTextRef, spoken>>
      ELSE /\ lastSpokenTextRef' = text
           /\ spoken' = Append(spoken, text)

\* The effect of lines 110-124, run after a render that changed one of its
\* dependencies, on the values of that render.
TranslationEffect(text, translating) ==
    IF text # <<>> /\ translating
      THEN SpeakText(text)
      ELSE UNCHANGED <<lastSpokenTextRef, spoken>>

\* The time to the next timer that is pending, at most Step.
TimeToNextTimer ==
    Min(IF idleTimeoutRef = NoTimer THEN Step ELSE idleTimeoutRef,
        IF sentenceTimeoutRef.left = NoTimer THEN Step ELSE sentenceTimeoutRef.left)

\* The scenario begins at a startProcessing of a stopped hook that has no
\* frame of an earlier session in flight.
ScenarioAfterStart ==
    IF ~processingRef /\ sending + PendingFrames = 0
      THEN [running |-> TRUE, elapsed |-> 0]
      ELSE NoScenario

\* The scenario goes on when the frame shows what it prescribes at this
\* time: an open palm during the first 1000 ms, no hand after them.
ScenarioAfterFrame(results) ==
    IF /\ scenario.running
       /\ scenario.elapsed < 1000 => results = <<OpenPalmHand>>
       /\ scenario.elapsed > 1000 => results = <<>>
       /\ results \in {<<OpenPalmHand>>, <<>>}
      THEN scenario
      ELSE NoScenario

\* Time passes in the scenario once every frame due has been delivered; the
\* scenario ends 5000 ms after the start.
ScenarioAfterTick ==
    IF /\ scenario.running
       /\ sending = 0 /\ animationFrameRef # "ready" /\ orphanFrames.ready = 0
       /\ scenario.elapsed + Min(Step, TimeToNextTimer) <= 5000
      THEN [scenario EXCEPT !.elapsed = @ + Min(Step, TimeToNextTimer)]
      ELSE NoScenario

\* -------------------------------------------------------------- actions
\* startProcessing (lines 283-313) with the detector missing
StartUnavailableStartsIdleTimer ==
    /\ Committed
    /\ ~handsRef
    /\ error' = "unavailable"
    /\ ResetIdleTimeout
    /\ isTranslating' = TRUE
    /\ lastSpokenTextRef' = <<>>
    /\ spoken' = <<>>
    /\ lastOp' = "startUnavailable"
    /\ lastFrame' = None
    /\ lastResults' = <<>>
    /\ scenario' = NoScenario
    /\ UNCHANGED tts
    /\ found' = Nothing
    /\ UNCHANGED <<isProcessing, detectedGesture, translatedText, currentChunk,
                   sentenceInProgress, gestureRefs, sentenceTimeoutRef,
                   straySentenceTimers, driverVars, handsRef, processingRef,
                   renderedSentence, hold, sessionAccepts>>
StartUnavailable ==
    /\ Committed
    /\ ~handsRef
    /\ error' = "unavailable"
    \* handleStartTranslation (lines 53-64): setIsTranslating(true) before the
    \* call, lastSpokenTextRef.current = '' after it; then the page's effect
    /\ isTranslating' = TRUE
    /\ IF translatedText # <<>> /\ ~isTranslating
         THEN /\ lastSpokenTextRef' = translatedText
              /\ spoken' = <<translatedText>>
         ELSE /\ lastSpokenTextRef' = <<>>
              /\ spoken' = <<>>
    /\ lastOp' = "startUnavailable"
    /\ lastFrame' = None
    /\ lastResults' = <<>>
    /\ scenario' = NoScenario
    /\ UNCHANGED tts
    /\ found' = Nothing
    /\ UNCHANGED <<isProcessing, detectedGesture, translatedText, currentChunk, isIdle,
                   sentenceInProgress, gestureRefs, timerRefs, driverVars, handsRef,
                   processingRef, renderedSentence, hold, sessionAccepts>>

\* startProcessing (lines 283-313); its processFrame call awaits a send
StartProcessing ==
    /\ Committed
    /\ handsRef
    /\ sending + PendingFrames < MaxLoops
    /\ isProcessing' = TRUE
    /\ processingRef' = TRUE
    /\ currentChunk' = NoChunk
    /\ translatedText' = <<>>
    /\ sentenceInProgress' = <<>>
    /\ currentGestureRef' = None
    /\ gestureStabilityCountRef' = 0
    /\ lastProcessedGestureRef' = None
    /\ sinceLastProcessed' = GESTURE_PAUSE_TIME
    /\ error' = None
    /\ ResetIdleTimeout
    /\ sending' = sending + 1
    \* handleStartTranslation (lines 53-64); the transcript of the render
    \* that follows is empty, so the page's effect speaks nothing
    /\ isTranslating' = TRUE
    /\ lastSpokenTextRef' = <<>>
    /\ spoken' = <<>>
    /\ lastOp' = "start"
    /\ lastFrame' = None
    /\ lastResults' = <<>>
    /\ scenario' = ScenarioAfterStart
    /\ UNCHANGED tts
    /\ found' = Nothing
    /\ hold' = NoHold
    /\ sessionAccepts' = <<>>
    /\ UNCHANGED <<detectedGesture, sinceGestureStart, sentenceTimeoutRef,
                   straySentenceTimers, animationFrameRef, orphanFrames, handsRef,
                   renderedSentence>>

\* stopProcessing called by the page; it is the one of the last render
Stop ==
    /\ Committed
    /\ StopProcessing(renderedSentence)
    \* handleStopTranslation (lines 66-70)
    /\ isTranslating' = FALSE
    /\ TranslationEffect(translatedText', FALSE)
    /\ lastOp' = "stop"
    /\ lastFrame' = None
    /\ lastResults' = <<>>
    /\ scenario' = NoScenario
    /\ UNCHANGED tts
    /\ found' = Found
    /\ hold' = NoHold
    /\ UNCHANGED <<error, isIdle, handsRef, renderedSentence, sending, sessionAccepts>>

\* The render after sentenceInProgress changed (lines 353-358): the cleanup of
\* the effect calls the stopProcessing of the render before, then the effect
\* runs initializeHands (lines 89-114), which may throw in new Hands().
Commit ==
    /\ ~Committed
    /\ StopProcessing(renderedSentence)
    /\ renderedSentence' = sentenceInProgress
    /\ \E ok \in BOOLEAN :
         /\ handsRef' = (ok \/ handsRef)
         /\ error' = IF ok THEN error ELSE "initialize"
    \* the page's effect on the render that shows the new transcript
    /\ IF translatedText' # translatedText
         THEN TranslationEffect(translatedText', isTranslating)
         ELSE UNCHANGED <<lastSpokenTextRef, spoken>>
    /\ lastOp' = "commit"
    /\ lastFrame' = None
    /\ lastResults' = <<>>
    /\ scenario' = scenario
    /\ UNCHANGED tts
    /\ found' = Found
    /\ hold' = NoHold
    /\ UNCHANGED <<isIdle, sending, sessionAccepts, isTranslating>>

\* One send completes (processFrame, lines 74-87): hands.onResults hands the
\* results to processHandResults unless processingRef is false (lines
\* 102-105), then processFrame requests the next animation frame.
FrameCycleWhileStopped(results) ==
    /\ Committed
    /\ sending > 0
    /\ sending' = sending - 1
    /\ IF processingRef \/ ~processingRef
         THEN /\ gestureStabilityCountRef < MaxCount
              /\ Len(translatedText) + Len(sentenceInProgress) + 2 <= MaxTokens
              /\ ProcessHandResults(results)
              /\ RequestAnimationFrame
              /\ lastResults' = results
              /\ lastFrame' = IF results = <<>> THEN "noHands"
                              ELSE IF Throws(results) THEN "threw"
                              ELSE IF GestureOf(results) = None THEN "noPose"
                              ELSE GestureOf(results)
              /\ LET accepted == Len(currentChunk'.gestures) > Len(currentChunk.gestures) IN
                   /\ hold' = IF Throws(results) THEN hold
                              ELSE HoldAfter(GestureOf(results), accepted)
                   /\ sessionAccepts' =
                        IF accepted
                          THEN Append(sessionAccepts, TranslatedWord(GestureOf(results)))
                          ELSE sessionAccepts
         ELSE /\ lastFrame' = None
              /\ lastResults' = <<>>
              /\ UNCHANGED <<stateVars, gestureRefs, timerRefs, animationFrameRef,
                             orphanFrames, hold, sessionAccepts>>
    /\ lastOp' = "frame"
    /\ scenario' = ScenarioAfterFrame(results)
    /\ UNCHANGED tts
    /\ found' = Nothing
    /\ UNCHANGED <<handsRef, processingRef, renderedSentence, pageVars>>
FrameCycle(results) ==
    /\ Committed
    /\ sending > 0
    /\ sending' = sending - 1
    /\ IF processingRef
         THEN /\ gestureStabilityCountRef < MaxCount
              /\ Len(translatedText) + Len(sentenceInProgress) + 2 <= MaxTokens
              /\ ProcessHandResults(results)
              /\ RequestAnimationFrame
              /\ lastResults' = results
              /\ lastFrame' = IF results = <<>> THEN "noHands"
                              ELSE IF Throws(results) THEN "threw"
                              ELSE IF GestureOf(results) = None THEN "noPose"
                              ELSE GestureOf(results)
              /\ LET accepted == Len(currentChunk'.gestures) > Len(currentChunk.gestures) IN
                   /\ hold' = IF Throws(results) THEN hold
                              ELSE HoldAfter(GestureOf(results), accepted)
                   /\ sessionAccepts' =
                        IF accepted
                          THEN Append(sessionAccepts, TranslatedWord(GestureOf(results)))
                          ELSE sessionAccepts
         ELSE /\ lastFrame' = None
              /\ lastResults' = <<>>
              /\ UNCHANGED <<stateVars, gestureRefs, timerRefs, animationFrameRef,
                             orphanFrames, hold, sessionAccepts>>
    /\ lastOp' = "frame"
    /\ scenario' = ScenarioAfterFrame(results)
    /\ UNCHANGED tts
    /\ found' = Nothing
    /\ UNCHANGED <<handsRef, processingRef, renderedSentence, pageVars>>

\* hands.send rejects (lines 79-82)
SendFailsEndsSession ==
    /\ Committed
    /\ sending > 0
    /\ sending' = sending - 1
    /\ error' = "frame"
    /\ UNCHANGED <<animationFrameRef, orphanFrames>>
    /\ lastOp' = "sendFails"
    /\ lastFrame' = None
    /\ lastResults' = <<>>
    /\ scenario' = NoScenario
    /\ UNCHANGED tts
    /\ found' = Nothing
    /\ UNCHANGED <<isProcessing, detectedGesture, translatedText, currentChunk, isIdle,
                   sentenceInProgress, gestureRefs, timerRefs, handsRef, processingRef,
                   renderedSentence, pageVars, hold, sessionAccepts>>
SendFails ==
    /\ Committed
    /\ sending > 0
    /\ sending' = sending - 1
    /\ error' = "frame"
    /\ IF processingRef
         THEN RequestAnimationFrame
         ELSE UNCHANGED <<animationFrameRef, orphanFrames>>
    /\ lastOp' = "sendFails"
    /\ lastFrame' = None
    /\ lastResults' = <<>>
    /\ scenario' = NoScenario
    /\ UNCHANGED tts
    /\ found' = Nothing
    /\ UNCHANGED <<isProcessing, detectedGesture, translatedText, currentChunk, isIdle,
                   sentenceInProgress, gestureRefs, timerRefs, handsRef, processingRef,
                   renderedSentence, pageVars, hold, sessionAccepts>>

\* A requested animation frame fires: processFrame (lines 74-78) sends the
\* video frame unless the detector is missing or processing has stopped.
AnimationFrame ==
    /\ Committed
    /\ \/ /\ animationFrameRef = "ready"
          /\ animationFrameRef' = None
          /\ UNCHANGED orphanFrames
       \/ /\ orphanFrames.ready > 0
          /\ orphanFrames' = [orphanFrames EXCEPT !.ready = @ - 1]
          /\ UNCHANGED animationFrameRef
    /\ sending' = IF handsRef /\ processingRef THEN sending + 1 ELSE sending
    /\ lastOp' = "animationFrame"
    /\ lastFrame' = None
    /\ lastResults' = <<>>
    /\ scenario' = scenario
    /\ UNCHANGED tts
    /\ found' = Nothing
    /\ UNCHANGED <<stateVars, gestureRefs, timerRefs, handsRef, processingRef,
                   renderedSentence, pageVars, hold, sessionAccepts>>

\* the idle timer fires (lines 43-52)
IdleTimeoutKeepsCount ==
    /\ Committed
    /\ idleTimeoutRef = 0
    /\ idleTimeoutRef' = NoTimer
    /\ UNCHANGED <<strayIdleTimers, straySentenceTimers>>
    /\ isIdle' = TRUE
    /\ sentenceInProgress' = <<>>
    /\ currentChunk' = NoChunk
    /\ detectedGesture' = None
    /\ currentGestureRef' = None
    /\ lastProcessedGestureRef' = None
    /\ lastOp' = "idleTimeout"
    /\ lastFrame' = None
    /\ lastResults' = <<>>
    /\ scenario' = scenario
    /\ UNCHANGED tts
    /\ found' = Found
    /\ hold' = NoHold
    /\ UNCHANGED <<isProcessing, translatedText, error, sinceGestureStart,
                   gestureStabilityCountRef, sinceLastProcessed, sentenceTimeoutRef,
                   driverVars, handsRef, processingRef, renderedSentence, pageVars,
                   sessionAccepts>>
IdleTimeout ==
    /\ Committed
    /\ idleTimeoutRef = 0
    /\ idleTimeoutRef' = NoTimer
    /\ UNCHANGED <<strayIdleTimers, straySentenceTimers>>
    /\ isIdle' = TRUE
    /\ sentenceInProgress' = <<>>
    /\ currentChunk' = NoChunk
    /\ detectedGesture' = None
    /\ currentGestureRef' = None
    /\ gestureStabilityCountRef' = 0
    /\ lastProcessedGestureRef' = None
    /\ lastOp' = "idleTimeout"
    /\ lastFrame' = None
    /\ lastResults' = <<>>
    /\ scenario' = scenario
    /\ UNCHANGED tts
    /\ found' = Found
    /\ hold' = NoHold
    /\ UNCHANGED <<isProcessing, translatedText, error, sinceGestureStart,
                   sinceLastProcessed, sentenceTimeoutRef, driverVars, handsRef,
                   processingRef, renderedSentence, pageVars, sessionAccepts>>

\* The sentence timer fires (lines 59-71).  No behaviour of Spec takes this
\* step: the render that follows the acceptance that set the timer clears it
\* (Commit), as SentenceTimerOnlyBeforeCommit states.
SentenceTimeout ==
    /\ Committed
    /\ sentenceTimeoutRef.left = 0
    /\ IF sentenceTimeoutRef.sentence # <<>>
         THEN /\ translatedText' = AppendSentence(translatedText, sentenceTimeoutRef.sentence)
              /\ sentenceInProgress' = <<>>
              /\ currentChunk' = NoChunk
         ELSE UNCHANGED <<translatedText, sentenceInProgress, currentChunk>>
    /\ lastProcessedGestureRef' = None
    /\ sentenceTimeoutRef' = NoSentenceTimer
    /\ UNCHANGED <<strayIdleTimers, straySentenceTimers>>
    /\ IF translatedText' # translatedText
         THEN TranslationEffect(translatedText', isTranslating)
         ELSE UNCHANGED <<lastSpokenTextRef, spoken>>
    /\ UNCHANGED isTranslating
    /\ lastOp' = "sentenceTimeout"
    /\ lastFrame' = None
    /\ lastResults' = <<>>
    /\ scenario' = scenario
    /\ UNCHANGED tts
    /\ found' = Nothing
    /\ UNCHANGED <<isProcessing, detectedGesture, error, isIdle, currentGestureRef,
                   gestureStabilityCountRef, sinceGestureStart, sinceLastProcessed,
                   idleTimeoutRef, driverVars, handsRef, processingRef, renderedSentence,
                   hold, sessionAccepts>>

\* Time passes: up to Step, and no further than the next timer.
Tick ==
    /\ Committed
    /\ TimeToNextTimer > 0
    /\ LET dt == Min(Step, TimeToNextTimer) IN
         /\ idleTimeoutRef' = IF idleTimeoutRef = NoTimer THEN NoTimer ELSE idleTimeoutRef - dt
         /\ sentenceTimeoutRef' =
              IF sentenceTimeoutRef.left = NoTimer THEN sentenceTimeoutRef
              ELSE [sentenceTimeoutRef EXCEPT !.left = @ - dt]
         /\ sinceGestureStart' = Min(sinceGestureStart + dt, GESTURE_HOLD_TIME)
         /\ sinceLastProcessed' = Min(sinceLastProcessed + dt, GESTURE_PAUSE_TIME)
         /\ hold' = [hold EXCEPT !.time = Min(@ + dt, GESTURE_HOLD_TIME)]
    /\ UNCHANGED <<strayIdleTimers, straySentenceTimers>>
    /\ animationFrameRef' = IF animationFrameRef = "new" THEN "ready" ELSE animationFrameRef
    /\ orphanFrames' = [new |-> 0, ready |-> orphanFrames.ready + orphanFrames.new]
    /\ lastOp' = "tick"
    /\ lastFrame' = None
    /\ lastResults' = <<>>
    /\ scenario' = ScenarioAfterTick
    /\ UNCHANGED tts
    /\ found' = Nothing
    /\ UNCHANGED <<stateVars, currentGestureRef, gestureStabilityCountRef,
                   lastProcessedGestureRef, sending, handsRef, processingRef,
                   renderedSentence, pageVars, sessionAccepts>>

\* The user picks another output language (lines 204-209): speakText is
\* re-created (line 107) and the page's effect runs again on the same
\* transcript.
SetSpokenLanguage ==
    /\ Committed
    /\ TranslationEffect(translatedText, isTranslating)
    /\ lastOp' = "language"
    /\ lastFrame' = None
    /\ lastResults' = <<>>
    /\ scenario' = NoScenario
    /\ UNCHANGED tts
    /\ found' = Nothing
    /\ UNCHANGED <<stateVars, gestureRefs, timerRefs, driverVars, handsRef,
                   processingRef, renderedSentence, isTranslating, hold,
                   sessionAccepts>>

Next ==
    \/ StartUnavailable
    \/ StartProcessing
    \/ Stop
    \/ Commit
    \/ \E results \in FrameResults : FrameCycle(results)
    \/ SendFails
    \/ AnimationFrame
    \/ IdleTimeout
    \/ Tick
    \/ SetSpokenLanguage

Spec == Init /\ [][Next]_vars

\* ------------------------------------------------------ classifier alone
\* recognizeGestureFromLandmarks applied to every hand whose thumb tip and
\* finger tips sit just on either side of the margins it tests: the thumb
\* tip 90 or 91 from the wrist in x (the thumb base is 50 from it), left or
\* right, and 60 or 61 below the wrist; each finger tip 25 or 26 above its
\* knuckle.
ClassifierHands ==
    {Hand(tx, ty, iy, my, ry, py) :
        tx \in {409, 410, 591}, ty \in {860, 861},
        iy \in {474, 475}, my \in {474, 475}, ry \in {474, 475}, py \in {474, 475}}

ClassifierInit ==
    /\ Mounted
    /\ tts = NoSpeech
    /\ lastResults \in {<<h>> : h \in ClassifierHands}

Classify ==
    /\ lastOp = "mount"
    /\ lastOp' = "classify"
    /\ lastFrame' = GestureOf(lastResults)
    /\ UNCHANGED <<stateVars, gestureRefs, timerRefs, driverVars, handsRef,
                   processingRef, renderedSentence, pageVars, found, hold,
                   sessionAccepts, lastResults, scenario, tts>>

ClassifierNext == Classify

ClassifierSpec == ClassifierInit /\ [][ClassifierNext]_vars

\* The sentence timer is pending only between an acceptance and the render
\* that follows it, so it never comes due.
SentenceTimerOnlyBeforeCommit ==
    sentenceTimeoutRef # NoSentenceTimer =>
        ~Committed /\ sentenceTimeoutRef.left = SENTENCE_TIMEOUT

\* ------------------------------------------------------- text to speech
\* textToSpeech (textToSpeechService.ts, lines 12-65) on its own: the calls
\* made of it and the events the speech engine of the browser sends to the
\* utterance of each call.
MaxCalls == 2

hookVars == <<stateVars, gestureRefs, timerRefs, driverVars, handsRef, processingRef,
              renderedSentence, pageVars, history>>

\* event.error of an error event; "" when the event carries none
SpeechErrors == {"canceled", "interrupted", "network", "synthesis-failed", ""}

\* A call of textToSpeech before its executor has run: the utterance, the
\* promise, the calls of resolve and reject, and the calls of the callbacks.
NewCall ==
    [utterance |-> "none", cancelled |-> FALSE, errorType |-> "none",
     promise |-> "pending", settled |-> 0, onStart |-> 0, onEnd |-> 0, onError |-> 0]

\* resolve() and reject(): only the first of them settles the promise
Resolve(c) ==
    [c EXCEPT !.settled = @ + 1,
              !.promise = IF @ = "pending" THEN "resolved" ELSE @]

Reject(c) ==
    [c EXCEPT !.settled = @ + 1,
              !.promise = IF @ = "pending" THEN "rejected" ELSE @]

\* window.speechSynthesis.cancel() (line 31): every utterance queued or
\* being spoken is removed, and the engine will tell it so
CancelSpeech(calls) ==
    [i \in DOMAIN calls |->
        IF calls[i].utterance \in {"queued", "speaking"}
          THEN [calls[i] EXCEPT !.cancelled = TRUE]
          ELSE calls[i]]

\* textToSpeech is called (lines 22-64)
TextToSpeech ==
    /\ Len(tts.calls) < MaxCalls
    /\ tts' = [tts EXCEPT !.calls =
                 IF ~tts.supported
                   THEN Append(@, Reject([NewCall EXCEPT !.onError = 1]))
                   ELSE Append(CancelSpeech(@), [NewCall EXCEPT !.utterance = "queued"])]
    /\ UNCHANGED hookVars

\* utterance.onstart (lines 39-41): the engine begins to speak the utterance
UtteranceStart(i) ==
    /\ tts.calls[i].utterance = "queued"
    /\ ~tts.calls[i].cancelled
    /\ \A j \in DOMAIN tts.calls :
         tts.calls[j].utterance = "speaking" => tts.calls[j].cancelled
    /\ tts' = [tts EXCEPT !.calls[i] = [@ EXCEPT !.utterance = "speaking", !.onStart = @ + 1]]
    /\ UNCHANGED hookVars

\* utterance.onend (lines 43-46): the utterance has been spoken to its end,
\* or the engine ends an utterance that was cancelled
UtteranceEnd(i) ==
    /\ \/ tts.calls[i].utterance = "speaking"
       \/ tts.calls[i].utterance = "queued" /\ tts.calls[i].cancelled
    /\ tts' = [tts EXCEPT !.calls[i] =
                 Resolve([@ EXCEPT !.utterance = "ended", !.onEnd = @ + 1])]
    /\ UNCHANGED hookVars

\* utterance.onerror (lines 48-61)
UtteranceErrorAlwaysReports(i, eventError) ==
    /\ tts.calls[i].utterance \in {"queued", "speaking"}
    /\ tts.calls[i].cancelled => eventError \in {"canceled", "interrupted"}
    /\ tts' = [tts EXCEPT !.calls[i] =
                 Reject([@ EXCEPT !.utterance = "failed", !.errorType = eventError,
                                  !.onError = @ + 1])]
    /\ UNCHANGED hookVars
UtteranceError(i, eventError) ==
    /\ tts.calls[i].utterance \in {"queued", "speaking"}
    /\ tts.calls[i].cancelled => eventError \in {"canceled", "interrupted"}
    /\ LET errorType == IF eventError = "" THEN "unknown" ELSE eventError IN
       tts' = [tts EXCEPT !.calls[i] =
                 IF errorType \in {"canceled", "interrupted"}
                   THEN Resolve([@ EXCEPT !.utterance = "failed", !.errorType = errorType])
                   ELSE Reject([@ EXCEPT !.utterance = "failed", !.errorType = errorType,
                                         !.onError = @ + 1])]
    /\ UNCHANGED hookVars

SpeechInit ==
    /\ Mounted
    /\ lastResults = <<>>
    /\ \E supported \in BOOLEAN : tts = [NoSpeech EXCEPT !.supported = supported]

SpeechNext ==
    \/ TextToSpeech
    \/ \E i \in DOMAIN tts.calls : UtteranceStart(i)
    \/ \E i \in DOMAIN tts.calls : UtteranceEnd(i)
    \/ \E i \in DOMAIN tts.calls : \E eventError \in SpeechErrors : UtteranceError(i, eventError)

SpeechSpec == SpeechInit /\ [][SpeechNext]_vars

\* --------------------------------------------------------------- claims
\* This step is a processed frame that produced an acceptance: one more
\* gesture in the live chunk.
AcceptanceStep == Len(currentChunk'.gestures) > Len(currentChunk.gestures)

\* The words of a text, without the separators.
Words(text) == SelectSeq(text, LAMBDA tok : tok \notin {Space, DotSpace})

IsPrefix(a, b) == Len(a) <= Len(b) /\ SubSeq(b, 1, Len(a)) = a

\* C1: while the session runs, a hold (frames in a row with the same label,
\* no idle timeout between them) produces at most one acceptance, and has
\* produced one as soon as a frame of it arrives GESTURE_STABILITY_THRESHOLD
\* frames and GESTURE_HOLD_TIME into the hold.
C1_HoldAcceptedExactlyOnce ==
    /\ hold.accepts <= 1
    /\ (/\ lastOp = "frame"
        /\ hold.label # None
        /\ lastFrame = hold.label
        /\ hold.frames >= GESTURE_STABILITY_THRESHOLD
        /\ hold.time >= GESTURE_HOLD_TIME) => hold.accepts = 1

\* A frame of a hold long enough has just been processed and the hold has
\* its acceptance.
C1_Witness ==
    /\ lastOp = "frame"
    /\ hold.frames >= GESTURE_STABILITY_THRESHOLD
    /\ hold.time >= GESTURE_HOLD_TIME
    /\ hold.accepts = 1
    /\ sentenceInProgress # <<>>

\* C2: a frame produces an acceptance only if the count of the candidate
\* label, that frame counted, is at least GESTURE_STABILITY_THRESHOLD, the
\* candidate was first seen at least GESTURE_HOLD_TIME ago, and the label
\* differs from the last accepted one or that one was accepted at least
\* GESTURE_PAUSE_TIME ago.
C2_AcceptanceNeedsAllThree ==
    [][AcceptanceStep =>
         /\ currentGestureRef' = lastFrame'
         /\ gestureStabilityCountRef' >= GESTURE_STABILITY_THRESHOLD
         /\ sinceGestureStart >= GESTURE_HOLD_TIME
         /\ (lastProcessedGestureRef # lastFrame'
               \/ sinceLastProcessed >= GESTURE_PAUSE_TIME)]_vars

\* A frame has just produced an acceptance.
C2_Witness ==
    /\ lastOp = "frame"
    /\ currentChunk # NoChunk
    /\ lastFrame = detectedGesture
    /\ lastProcessedGestureRef = lastFrame

\* C3, as claimed: whenever the live chunk holds words, the sentence timer
\* is pending and the text it appends to the transcript when it fires is
\* the text of the chunk, all its words.
C3_TimerFinalizesTheChunk ==
    currentChunk # NoChunk =>
        /\ sentenceTimeoutRef.left # NoTimer
        /\ Trim(sentenceTimeoutRef.sentence) = currentChunk.text

C5_StopAppendsTheSentence ==
    [][lastOp' \in {"stop", "commit"} =>
         translatedText' = IF sentenceInProgress # <<>>
                             THEN AppendSentence(translatedText, sentenceInProgress)
                             ELSE translatedText]_vars

\* C6: while processing is stopped no sentence timer and no idle timer is
\* pending, so none fires before the next startProcessing.
C6_NoTimerWhileStopped ==
    ~processingRef =>
        /\ idleTimeoutRef = NoTimer
        /\ sentenceTimeoutRef = NoSentenceTimer

\* stopProcessing has just run and found the idle timer pending.
C6_Witness ==
    /\ lastOp = "stop"
    /\ found.idleTimer
    /\ ~processingRef

\* C8, as claimed: a processed frame without a hand leaves the idle timer as
\* it was.
C8_NoHandFrameKeepsIdleTimer ==
    [][(lastOp' = "frame" /\ lastFrame' = "noHands") =>
         idleTimeoutRef' = idleTimeoutRef]_vars

\* C9: right after the idle timer fired the idle flag is set, the live chunk
\* and the sentence in progress are empty, and the stabilizer has no
\* candidate, count 0 and no last accepted label.
C9_IdleTimeoutClears ==
    lastOp = "idleTimeout" =>
        /\ isIdle
        /\ currentChunk = NoChunk
        /\ sentenceInProgress = <<>>
        /\ currentGestureRef = None
        /\ gestureStabilityCountRef = 0
        /\ lastProcessedGestureRef = None

\* The idle timer has just fired on a stabilizer that had a candidate.
C9_Witness ==
    /\ lastOp = "idleTimeout"
    /\ found.gesture # None
    /\ found.count > 0

\* C10: a frame produces an acceptance only GESTURE_STABILITY_THRESHOLD frames
\* and GESTURE_HOLD_TIME into the hold it belongs to, and a hold starts anew
\* after a frame without a candidate.
C10_AcceptanceNeedsTheFullHold ==
    [][AcceptanceStep =>
         /\ hold'.label = lastFrame'
         /\ hold'.frames >= GESTURE_STABILITY_THRESHOLD
         /\ hold'.time >= GESTURE_HOLD_TIME]_vars

\* A gesture has just been accepted whose hold one frame without a candidate
\* had cut short before.
C10_Witness ==
    /\ lastOp = "frame"
    /\ hold.accepts = 1
    /\ hold.interrupted = hold.label

\* C11, as claimed: a candidate acceptance is judged against the acceptance
\* before it.  Until a timer fires or the caller calls stop() or start(), the
\* session keeps processing frames and keeps the last accepted label; a
\* processed frame of that label with the stability and hold conditions met
\* is suppressed when it comes less than GESTURE_PAUSE_TIME after that
\* acceptance and accepted when it comes GESTURE_PAUSE_TIME or more after it.
C11_CooldownBetweenAcceptances ==
    [][/\ (/\ lastProcessedGestureRef # None
           /\ ~AcceptanceStep
           /\ lastOp' \notin {"stop", "start", "idleTimeout", "sentenceTimeout"})
          => /\ lastProcessedGestureRef' = lastProcessedGestureRef
             /\ processingRef'
       /\ (/\ lastOp' = "frame"
           /\ processingRef
           /\ lastFrame' = lastProcessedGestureRef
           /\ lastFrame' = currentGestureRef
           /\ gestureStabilityCountRef' >= GESTURE_STABILITY_THRESHOLD
           /\ sinceGestureStart >= GESTURE_HOLD_TIME)
          => (AcceptanceStep <=> sinceLastProcessed >= GESTURE_PAUSE_TIME)]_vars

\* C12, as claimed: right after a frame that produced an acceptance the count
\* of consecutive frames is 0, and the last accepted label and time are the
\* label and the time of that frame.
C12_AcceptanceConsumesTheCount ==
    [][AcceptanceStep =>
         /\ gestureStabilityCountRef' = 0
         /\ lastProcessedGestureRef' = lastFrame'
         /\ sinceLastProcessed' = 0]_vars

\* The sentences of a text: one more than its ". " separators.
SentenceCount(text) ==
    IF text = <<>> THEN 0
    ELSE 1 + Len(SelectSeq(text, LAMBDA tok : tok = DotSpace))

RECURSIVE SpokenSentences(_)
SpokenSentences(texts) ==
    IF texts = <<>> THEN 0
    ELSE SentenceCount(Head(texts)) + SpokenSentences(Tail(texts))

\* C13: the texts handed to textToSpeech since the last start hold no more
\* sentences than the transcript has: no finalized sentence is spoken twice,
\* be it in a later text or in the same text handed over again.
C13_SentenceSpokenAtMostOnce ==
    SpokenSentences(spoken) <= SentenceCount(translatedText)

\* The page's effect has just run again on a transcript already spoken, and
\* nothing was spoken again.
C13_Witness ==
    /\ lastOp = "language"
    /\ translatedText # <<>>
    /\ isTranslating
    /\ spoken = <<translatedText>>

\* C14, as claimed: a running session stops only by a stop() of the caller;
\* no processed frame, acceptance, timer or render sets it to stopped.
C14_StopsOnlyByStop ==
    [][(processingRef /\ ~processingRef') => lastOp' = "stop"]_vars

\* C15, as claimed: at any time at most one frame cycle is alive: a frame
\* sent to the detector or an animation frame requested, never both and
\* never two of either.
C15_OneFrameCycle == sending + PendingFrames <= 1

\* Timers of each kind that are pending: the one the ref names and those it
\* no longer names.
PendingIdleTimers == strayIdleTimers + (IF idleTimeoutRef # NoTimer THEN 1 ELSE 0)
PendingSentenceTimers ==
    straySentenceTimers + (IF sentenceTimeoutRef.left # NoTimer THEN 1 ELSE 0)

\* C16: at every moment at most one idle timer and at most one sentence timer
\* is pending.
C16_OneTimerOfEachKind ==
    /\ PendingIdleTimers <= 1
    /\ PendingSentenceTimers <= 1

\* A frame has just restarted the idle timer that the frame before it, of
\* the same hold, had started.
C16_Witness ==
    /\ lastOp = "frame"
    /\ gestureStabilityCountRef >= 2
    /\ idleTimeoutRef = IDLE_TIMEOUT
    /\ PendingIdleTimers = 1

\* C17: every acceptance restarts the sentence timer at SENTENCE_TIMEOUT, and
\* a sentence timer pending on a chunk has at least SENTENCE_TIMEOUT, less
\* the time since the last acceptance, left to run.
C17_AcceptanceRestartsSentenceTimer ==
    [][/\ AcceptanceStep => sentenceTimeoutRef'.left = SENTENCE_TIMEOUT
       /\ (currentChunk' # NoChunk /\ sentenceTimeoutRef'.left # NoTimer)
            => sentenceTimeoutRef'.left + sinceLastProcessed' >= SENTENCE_TIMEOUT]_vars

\* A frame has just been accepted and the sentence timer has its full time
\* to run.
C17_Witness ==
    /\ lastOp = "frame"
    /\ currentChunk # NoChunk
    /\ sinceLastProcessed = 0
    /\ sentenceTimeoutRef.left = SENTENCE_TIMEOUT

C19_StartResets ==
    lastOp = "start" =>
        /\ isProcessing
        /\ processingRef
        /\ currentGestureRef = None
        /\ gestureStabilityCountRef = 0
        /\ lastProcessedGestureRef = None
        /\ currentChunk = NoChunk
        /\ sentenceInProgress = <<>>
        /\ ~isIdle
        /\ PendingSentenceTimers = 0

\* start() has just been called less than GESTURE_HOLD_TIME after a frame of
\* an earlier start showed a new gesture.
C19_Witness ==
    /\ lastOp = "start"
    /\ sinceGestureStart < GESTURE_HOLD_TIME
    /\ processingRef

\* C20: a start() without the detector reports an error and changes nothing
\* else: the session stays stopped, no frame is sent or requested and no idle
\* timer is started.
C20_StartUnavailableOnlyReports ==
    [][lastOp' = "startUnavailable" =>
         /\ error' # None
         /\ ~isProcessing' /\ ~processingRef'
         /\ sending' = 0 /\ animationFrameRef' = None /\ orphanFrames' = NoFrames
         /\ idleTimeoutRef' = NoTimer
         /\ UNCHANGED <<isProcessing, detectedGesture, translatedText, currentChunk,
                        isIdle, sentenceInProgress, gestureRefs, timerRefs,
                        driverVars, handsRef, processingRef>>]_vars

\* start() has just been called without the detector.
C20_Witness ==
    /\ lastOp = "startUnavailable"
    /\ error = "unavailable"
    /\ ~handsRef
    /\ ~isProcessing

\* C21: every step but a start() keeps the transcript it found as a prefix
\* of the transcript it leaves: frames, timers, renders and stop() only
\* append.
C21_TranscriptAppendOnly ==
    [][lastOp' # "start" => IsPrefix(translatedText, translatedText')]_vars

\* stop() has just been called on a transcript that holds a sentence, and
\* the sentence is still there.
C21_Witness ==
    /\ lastOp = "stop"
    /\ translatedText # <<>>
    /\ sentenceInProgress = <<>>
    /\ ~isTranslating

ClassifierLabels ==
    {"victory", "pointing_up", "thumbs_up", "thumbs_down", "open_palm", "closed_fist"}

\* The labels whose row matches the hand.
MatchingRows(lm) == {label \in ClassifierLabels : RowMatches(label, lm)}

\* C22, as claimed: no hand matches two rows of the decision table.
C22_RowsMutuallyExclusive ==
    lastResults # <<>> => Cardinality(MatchingRows(lastResults[1])) <= 1

\* The rows in the order the table is read.
RowOrder ==
    <<"victory", "pointing_up", "thumbs_up", "thumbs_down", "open_palm", "closed_fist">>

FirstMatchingRow(lm) ==
    IF MatchingRows(lm) = {} THEN None
    ELSE RowOrder[CHOOSE i \in DOMAIN RowOrder :
                    /\ RowMatches(RowOrder[i], lm)
                    /\ \A j \in 1..(i - 1) : ~RowMatches(RowOrder[j], lm)]

\* The five fingers that the hand extends.
ExtendedFingers(lm) ==
    {f \in {"thumb", "index", "middle", "ring", "pinky"} :
        CASE f = "thumb" -> IsThumbExtended(lm[4], lm[2], lm[0])
          [] f = "index" -> IsFingerExtended(lm[8], lm[5])
          [] f = "middle" -> IsFingerExtended(lm[12], lm[9])
          [] f = "ring" -> IsFingerExtended(lm[16], lm[13])
          [] f = "pinky" -> IsFingerExtended(lm[20], lm[17])}

\* C23: the classifier returns the label of the first row, in the order of
\* the table, that the hand matches, with a confidence above 0, and none
\* when no row matches; it returns open_palm exactly when all five fingers
\* are extended and closed_fist only when none is.
C23_FirstMatchingRow ==
    lastOp = "classify" =>
        LET lm == lastResults[1] IN
        /\ lastFrame = FirstMatchingRow(lm)
        /\ lastFrame # None => Confidence(lm) > 0
        /\ lastFrame = "open_palm" <=> Cardinality(ExtendedFingers(lm)) = 5
        /\ lastFrame = "closed_fist" => ExtendedFingers(lm) = {}

\* A hand that matches the rows thumbs_up and thumbs_down has been
\* classified as the first of them.
C23_Witness ==
    /\ lastOp = "classify"
    /\ lastFrame = "thumbs_up"
    /\ RowMatches("thumbs_down", lastResults[1])

\* The number of points of the landmark list of the frame just processed.
PointsOf(results) == Cardinality(DOMAIN results[1])

\* C24, as claimed: a frame whose landmark list does not have exactly 21
\* points reports an error, is not classified, and leaves the candidate, its
\* count and the times of the stabilizer as they were.
C24_MalformedFrameReported ==
    [][(lastOp' = "frame" /\ lastResults' # <<>> /\ PointsOf(lastResults') # 21)
          => /\ error' = "gestures"
             /\ lastFrame' = "threw"
             /\ UNCHANGED gestureRefs]_vars

\* The step reports an error of one frame: the send of the frame was
\* rejected, or the handling of its results threw.
FrameErrorStep ==
    \/ lastOp' = "sendFails"
    \/ lastOp' = "frame" /\ lastFrame' = "threw"

\* C26: an error of one frame in a running session leaves the session
\* running, with the detector in place and the next frame requested, and a
\* frame that arrives while the error is displayed is processed.
C26_FrameErrorKeepsSession ==
    [][/\ (processingRef /\ FrameErrorStep)
            => /\ error' # "none"
               /\ processingRef' /\ isProcessing' /\ handsRef'
               /\ animationFrameRef' = "new"
       /\ (processingRef /\ error # "none" /\ lastOp' = "frame")
            => lastFrame' # None]_vars

\* The results of a frame have just thrown in a running session, which is
\* still running and has requested the next frame.
C26_Witness ==
    /\ lastOp = "frame"
    /\ lastFrame = "threw"
    /\ error = "gestures"
    /\ processingRef /\ isProcessing
    /\ animationFrameRef = "new"

\* C27: a frame that raises an error sets the error message and leaves the
\* sentence in progress, the chunk, the transcript and the detected gesture
\* as they were.
C27_FrameErrorKeepsText ==
    [][FrameErrorStep
          => /\ error' # "none"
             /\ UNCHANGED <<sentenceInProgress, currentChunk, translatedText,
                            detectedGesture>>]_vars

\* A send has just been rejected and the transcript still holds its word.
C27_Witness ==
    /\ lastOp = "sendFails"
    /\ error = "frame"
    /\ translatedText # <<>>

\* The scenario has run to its end, 5000 ms after the start, and nothing
\* is left to do at this time: the render is done and no timer is due.
ScenarioEnded ==
    /\ scenario.running
    /\ scenario.elapsed = 5000
    /\ Committed
    /\ idleTimeoutRef # 0
    /\ sentenceTimeoutRef.left # 0

\* C28, as claimed: after startProcessing, an open palm shown for 1000 ms
\* and no hand for the 4000 ms that follow, the transcript holds "hello",
\* the chunk is empty and the idle flag is true.
C28_EndToEnd ==
    ScenarioEnded =>
        /\ \E i \in DOMAIN translatedText : translatedText[i] = "hello"
        /\ currentChunk = NoChunk
        /\ isIdle

\* C29: a frame that shows a gesture other than the candidate is not
\* accepted: it makes the gesture the candidate, with count 1 and the time
\* of this frame as its start, and leaves the last accepted gesture and its
\* time, the chunk, the sentence and the sentence timer as they were.
C29_NewGestureNeverAccepted ==
    [][(/\ lastOp' = "frame"
        /\ lastFrame' \in ClassifierLabels
        /\ lastFrame' # currentGestureRef)
          => /\ currentGestureRef' = lastFrame'
             /\ gestureStabilityCountRef' = 1
             /\ sinceGestureStart' = 0
             /\ UNCHANGED <<lastProcessedGestureRef, sinceLastProcessed, currentChunk,
                            sentenceInProgress, translatedText, detectedGesture,
                            sentenceTimeoutRef, straySentenceTimers>>]_vars

\* A frame has just made a closed fist the candidate, long after the last
\* acceptance could have been.
C29_Witness ==
    /\ lastOp = "frame"
    /\ lastFrame = "closed_fist"
    /\ currentGestureRef = "closed_fist"
    /\ gestureStabilityCountRef = 1
    /\ sinceGestureStart = 0
    /\ sinceLastProcessed = GESTURE_PAUSE_TIME
    /\ currentChunk = NoChunk

\* C30: a frame with no hand or no recognized pose leaves no candidate and
\* a count of 0, may clear the detected gesture, and leaves the last
\* accepted gesture and its time, the start time of the hold, the chunk, the
\* sentence, the transcript, the error and the sentence timer as they were.
C30_NoCandidateFrame ==
    [][(lastOp' = "frame" /\ lastFrame' \in {"noHands", "noPose"})
          => /\ currentGestureRef' = None
             /\ gestureStabilityCountRef' = 0
             /\ detectedGesture' \in {detectedGesture, None}
             /\ UNCHANGED <<lastProcessedGestureRef, sinceLastProcessed,
                            sinceGestureStart, currentChunk, sentenceInProgress,
                            translatedText, error, sentenceTimeoutRef,
                            straySentenceTimers>>]_vars

\* A frame without a pose has just been processed, one step of time after
\* a candidate was first seen, and no candidate is left.
C30_Witness ==
    /\ lastOp = "frame"
    /\ lastFrame = "noPose"
    /\ currentGestureRef = None
    /\ gestureStabilityCountRef = 0
    /\ sinceGestureStart = Step

\* The words of the gestures, in order, with one blank between two words.
RECURSIVE SpaceJoined(_)
SpaceJoined(gestures) ==
    IF gestures = <<>> THEN <<>>
    ELSE IF Len(gestures) = 1 THEN <<TranslatedWord(gestures[1])>>
    ELSE SpaceJoined(SubSeq(gestures, 1, Len(gestures) - 1))
           \o <<Space, TranslatedWord(gestures[Len(gestures)])>>

\* C31: the sentence in progress is the text of the chunk, the text of the
\* chunk is the words of its gestures in the order of their acceptance,
\* joined by blanks, and it has as many words as the chunk has gestures.
C31_SentenceIsChunkText ==
    /\ sentenceInProgress = currentChunk.text
    /\ currentChunk.text = SpaceJoined(currentChunk.gestures)
    /\ Len(Words(currentChunk.text)) = Len(currentChunk.gestures)

\* A gesture has just been accepted: the chunk holds it and its word.
C31_Witness ==
    /\ lastOp = "frame"
    /\ currentChunk.gestures = <<"open_palm">>
    /\ currentChunk.text = <<"hello">>
    /\ sentenceInProgress = <<"hello">>

\* C32: the transcript changes, but for the startProcessing that empties
\* it, only by taking one more finalized sentence, which is not empty: the
\* sentence alone when the transcript was empty, and the transcript, ". "
\* and the sentence otherwise. So the transcript is the sentences finalized
\* since the last startProcessing, joined by ". ".
C32_TranscriptIsJoinedSentences ==
    [][(translatedText' # translatedText /\ lastOp' # "start")
          => /\ renderedSentence # <<>>
             /\ translatedText' =
                  IF translatedText = <<>> THEN renderedSentence
                  ELSE translatedText \o <<DotSpace>> \o renderedSentence]_vars

\* The first sentence of a session has just been finalized and is the
\* whole transcript.
C32_Witness ==
    /\ lastOp = "commit"
    /\ found.sentence = <<>>
    /\ renderedSentence = <<>>
    /\ translatedText = <<"hello">>
    /\ sessionAccepts = <<"hello">>

\* C33: results that arrive while the session is stopped change nothing of
\* what the hook displays, of the stabilizer or of the timers, and request
\* no further frame.
C33_ResultsWhileStoppedIgnored ==
    [][(lastOp' = "frame" /\ ~isProcessing)
          => /\ lastFrame' = None
             /\ UNCHANGED <<stateVars, gestureRefs, timerRefs, animationFrameRef,
                            orphanFrames, pageVars>>]_vars

\* The results of a frame sent before the session stopped have just
\* arrived; the transcript holds the word of the session and no timer is
\* pending.
C33_Witness ==
    /\ lastOp = "frame"
    /\ lastFrame = None
    /\ ~isProcessing
    /\ translatedText = <<"hello">>
    /\ idleTimeoutRef = NoTimer
    /\ sentenceTimeoutRef = NoSentenceTimer

\* C34: while a sentence timer is pending the idle timer is pending too and
\* is due later, and the idle timer never fires in a state where a sentence
\* timer is pending.
C34_SentenceTimerBeforeIdleTimer ==
    [][/\ sentenceTimeoutRef.left # NoTimer
            => /\ idleTimeoutRef # NoTimer
               /\ sentenceTimeoutRef.left < idleTimeoutRef
       /\ lastOp' = "idleTimeout" => sentenceTimeoutRef.left = NoTimer]_vars

\* An acceptance has just started the sentence timer and restarted the idle
\* timer.
C34_Witness ==
    /\ lastOp = "frame"
    /\ currentChunk # NoChunk
    /\ sentenceTimeoutRef.left = SENTENCE_TIMEOUT
    /\ idleTimeoutRef = IDLE_TIMEOUT

\* C36: each of the six labels of the classifier has a word in the table
\* that is not empty, two of the labels never have the same word, and the
\* label the classifier returns for a hand is one of the six, so that its
\* word is never undefined.
C36_EveryLabelHasItsWord ==
    /\ \A label \in ClassifierLabels :
         /\ label \in DOMAIN ASL_TO_ENGLISH_MAPPING
         /\ ASL_TO_ENGLISH_MAPPING[label] # ""
    /\ \A a, b \in ClassifierLabels :
         a # b => ASL_TO_ENGLISH_MAPPING[a] # ASL_TO_ENGLISH_MAPPING[b]
    /\ (lastOp = "classify" /\ lastFrame # None)
         => /\ lastFrame \in ClassifierLabels
            /\ TranslatedWord(lastFrame) \notin {"", "undefined"}

\* A hand has been classified as thumbs_down, whose word is "no".
C36_Witness ==
    /\ lastOp = "classify"
    /\ lastFrame = "thumbs_down"
    /\ TranslatedWord(lastFrame) = "no"

\* The utterance of the call is over: no event of it is still to come.
SpeechOver(c) == c.utterance \in {"none", "ended", "failed"}

\* C37: resolve or reject is called at most once for a call of
\* textToSpeech, and exactly once when its utterance is over or could not
\* be made; the promise is resolved, without a call of onError, after an
\* end (onEnd called once before) or an error canceled or interrupted, and
\* rejected, with one call of onError, after any other error or without
\* speech support.
C37_PromiseSettledOnce ==
    \A i \in DOMAIN tts.calls :
        LET c == tts.calls[i] IN
        /\ c.settled <= 1 /\ c.onError <= 1 /\ c.onEnd <= 1
        /\ c.promise = "pending" <=> c.settled = 0
        /\ SpeechOver(c) <=> c.settled = 1
        /\ c.utterance = "ended" => c.promise = "resolved" /\ c.onEnd = 1 /\ c.onError = 0
        /\ (c.utterance = "failed" /\ c.errorType \in {"canceled", "interrupted"})
             => c.promise = "resolved" /\ c.onError = 0
        /\ (c.utterance = "failed" /\ c.errorType \notin {"canceled", "interrupted"})
             => c.promise = "rejected" /\ c.onError = 1
        /\ c.utterance = "none" => c.promise = "rejected" /\ c.onError = 1

\* A second call has cancelled the utterance of the first, whose promise
\* was resolved on the error interrupted, and its own utterance has failed
\* on a network error, which rejected its promise.
C37_Witness ==
    /\ Len(tts.calls) = 2
    /\ tts.calls[1].errorType = "interrupted"
    /\ tts.calls[1].promise = "resolved"
    /\ tts.calls[2].errorType = "network"
    /\ tts.calls[2].promise = "rejected"
    /\ tts.calls[2].onError = 1
====
